---------------------------- MODULE Spec2Model ----------------------------
(***************************************************************************)
(* Model of Models/1D_diffusion.py: the noise schedule (get_alphas_sigmas, *)
(* get_crash_schedule, alpha_sigma_to_t), the sampler loop (sample), the   *)
(* training-target construction (DiffusionUncond.training_step) and the    *)
(* demo callback (DemoCallback.on_train_batch_end).                        *)
(*                                                                         *)
(* Numbers.  A torch float is modelled as a binary fixed-point number with *)
(* Scale = 2^10 units per 1.0; every arithmetic operation rounds its       *)
(* result to the nearest unit, as a float operation rounds to the nearest  *)
(* representable value.  NaN is a distinguished value that every operation *)
(* propagates; comparisons with it are false.  sin and cos are evaluated   *)
(* with 2^16 units per 1.0 internally and then rounded.                    *)
(*                                                                         *)
(* Tensors.  Every tensor operation of sample and training_step is         *)
(* elementwise, so a signal tensor is modelled by one of its elements.     *)
(***************************************************************************)
EXTENDS Integers, Sequences, FiniteSets, TLC

---------------------------------------------------------------------------
(* Bounds of the model (not program constants). *)

\* largest `steps` argument given to sample (and largest demo_steps)
MaxSteps == 4
\* largest trainer.global_step
MaxGlobalStep == 4
\* largest configs["demo_every"]
MaxDemoEvery == 3
\* get_crash_schedule and training_step are applied to t = k/TGrid, k = 0..TGrid
TGrid == 16

---------------------------------------------------------------------------
(* Float arithmetic. *)

Scale == 2^10
Guard == 2^16
Split == 2^8
\* math.pi in Guard units
PiG == 205887
NaN == -(2^30)

IsNaN(a) == a = NaN
Abs(a) == IF a < 0 THEN -a ELSE a

Add(a, b) == IF IsNaN(a) \/ IsNaN(b) THEN NaN ELSE a + b
Sub(a, b) == IF IsNaN(a) \/ IsNaN(b) THEN NaN ELSE a - b
Mul(a, b) == IF IsNaN(a) \/ IsNaN(b) THEN NaN ELSE (a * b + Scale \div 2) \div Scale
\* a / b for b >= 0; x/0 is inf or nan in torch: both are the non-finite value here
Div(a, b) ==
    IF IsNaN(a) \/ IsNaN(b) \/ b = 0 THEN NaN ELSE (a * Scale + b \div 2) \div b

RECURSIVE ISqrtIn(_, _, _)
\* largest r in lo..hi-1 with r*r <= n, given lo*lo <= n < hi*hi
ISqrtIn(n, lo, hi) ==
    IF hi - lo <= 1 THEN lo
    ELSE LET m == (lo + hi) \div 2
         IN IF m * m <= n THEN ISqrtIn(n, m, hi) ELSE ISqrtIn(n, lo, m)

\* Tensor.sqrt() and ** 0.5: NaN for a negative argument
Sqrt(a) ==
    IF IsNaN(a) \/ a < 0 THEN NaN
    ELSE LET n == a * Scale
             r == ISqrtIn(n, 0, 2^15)
         IN IF n - r * r > r THEN r + 1 ELSE r

\* a ** 2 where the code squares a schedule coefficient: a float keeps the
\* relative precision of a square, so the square is carried exactly, in units
\* of Scale^-2 per 1.0
Sq(a) == IF IsNaN(a) THEN NaN ELSE a * a

\* the quotient n2 / d2 of two such squares, 0 <= n2 <= d2, in the same units
\* (long division in two digits of Scale: no 32-bit overflow)
DivSq(n2, d2) ==
    IF IsNaN(n2) \/ IsNaN(d2) \/ d2 = 0 THEN NaN
    ELSE ((n2 * Scale) \div d2) * Scale + (((n2 * Scale) % d2) * Scale) \div d2

\* Tensor.sqrt() of a value in units of Scale^-2, rounded to units of Scale^-1
SqrtSq(n) ==
    IF IsNaN(n) \/ n < 0 THEN NaN
    ELSE LET r == ISqrtIn(n, 0, 2^15)
         IN IF n - r * r > r THEN r + 1 ELSE r

\* a*b in Guard units, for 0 <= a, b < 2^18 (split product: no 32-bit overflow)
MulG(a, b) == ((a \div Split) * b + ((a % Split) * b) \div Split) \div Split

\* sin and cos of an angle in Guard units, 0 <= a <= pi/2, in Guard units
SinRaw(a) ==
    LET x2 == MulG(a, a)
        t4 == Guard - x2 \div 72
        t3 == Guard - MulG(x2, t4) \div 42
        t2 == Guard - MulG(x2, t3) \div 20
        t1 == Guard - MulG(x2, t2) \div 6
    IN MulG(a, t1)

CosRaw(a) ==
    LET x2 == MulG(a, a)
        t5 == Guard - x2 \div 90
        t4 == Guard - MulG(x2, t5) \div 56
        t3 == Guard - MulG(x2, t4) \div 30
        t2 == Guard - MulG(x2, t3) \div 12
    IN Guard - MulG(x2, t2) \div 2

RoundG(r) == (r + (Guard \div Scale) \div 2) \div (Guard \div Scale)

\* torch.sin, torch.cos: angle in Guard units, result in Scale units
Sin(a) == RoundG(SinRaw(a))
Cos(a) == RoundG(CosRaw(a))

\* t * math.pi / 2 for a timestep tm in Scale units; the angle in Guard units
HalfPiTimes(tm) == (tm * PiG) \div (2 * Scale)

RECURSIVE Atan2In(_, _, _, _)
\* smallest angle a in lo..hi whose direction is not clockwise of (alpha, sigma)
Atan2In(sigma, alpha, lo, hi) ==
    IF lo >= hi THEN lo
    ELSE LET m == (lo + hi) \div 2
         IN IF SinRaw(m) * alpha - CosRaw(m) * sigma >= 0
            THEN Atan2In(sigma, alpha, lo, m)
            ELSE Atan2In(sigma, alpha, m + 1, hi)

\* torch.atan2(sigma, alpha) for sigma, alpha >= 0 (the first quadrant is all
\* the schedule uses): the angle of the direction (alpha, sigma), Guard units
Atan2(sigma, alpha) == Atan2In(sigma, alpha, 0, PiG \div 2 + 1)

---------------------------------------------------------------------------
(* The noise schedule. *)

get_alphas_sigmas(tm) ==
    [alpha |-> Cos(HalfPiTimes(tm)), sigma |-> Sin(HalfPiTimes(tm))]

\* faulty variant: the arguments of atan2 exchanged
alpha_sigma_to_t_swapped(alpha, sigma) ==
    (Atan2(alpha, sigma) * 2 * Scale + PiG \div 2) \div PiG

\* atan2(sigma, alpha) / pi * 2, which in floats is (2 * atan2) / pi exactly
alpha_sigma_to_t(alpha, sigma) ==
    (Atan2(sigma, alpha) * 2 * Scale + PiG \div 2) \div PiG

get_crash_schedule(tm) ==
    LET s == Sin(HalfPiTimes(tm))
        sigma == Mul(s, s)
        alpha == Sqrt(Sub(Scale, Mul(sigma, sigma)))
    IN alpha_sigma_to_t(alpha, sigma)

\* torch.linspace(1, 0, steps + 1)[:-1], for steps >= 0
Linspace(n) == [k \in 1..n |-> Scale - ((k - 1) * Scale + n \div 2) \div n]

RECURSIVE CrashedUpTo(_, _)
\* the first k entries of get_crash_schedule(lin), elementwise
CrashedUpTo(lin, k) ==
    IF k = 0 THEN <<>>
    ELSE Append(CrashedUpTo(lin, k - 1), get_crash_schedule(lin[k]))

RECURSIVE AlphasUpTo(_, _)
\* the first k entries of get_alphas_sigmas(tt)[0], elementwise
AlphasUpTo(tt, k) ==
    IF k = 0 THEN <<>>
    ELSE Append(AlphasUpTo(tt, k - 1), get_alphas_sigmas(tt[k]).alpha)

RECURSIVE SigmasUpTo(_, _)
\* the first k entries of get_alphas_sigmas(tt)[1], elementwise
SigmasUpTo(tt, k) ==
    IF k = 0 THEN <<>>
    ELSE Append(SigmasUpTo(tt, k - 1), get_alphas_sigmas(tt[k]).sigma)

\* t, alphas and sigmas as sample builds them before its loop, for steps = n
ScheduleFor(n) ==
    LET tt == CrashedUpTo(Linspace(n), n)
    IN [t |-> tt, alphas |-> AlphasUpTo(tt, n), sigmas |-> SigmasUpTo(tt, n)]

RECURSIVE SchedulesUpTo(_)
SchedulesUpTo(n) ==
    IF n = 0 THEN <<>> ELSE Append(SchedulesUpTo(n - 1), ScheduleFor(n))

\* the schedules of steps = 1..MaxSteps (they depend on steps alone)
Schedules == SchedulesUpTo(MaxSteps)

---------------------------------------------------------------------------
(* Inputs. *)

\* elements of the starting tensor x / of the demo noise / of a training batch
Inputs == {-Scale, Scale \div 2, 2 * Scale}
\* the eta argument: 0, 0.5, 1 and 2
Etas == {0, Scale \div 2, Scale, 2 * Scale}
\* values a torch.randn_like draw can take
Noise == {-Scale, Scale}
\* elements of the torch.randn noise the demo callback starts from
DemoNoise == {-Scale, Scale}
\* timesteps k/TGrid, k = 0..TGrid
GridTimes == {(k * Scale) \div TGrid : k \in 0..TGrid}

(* A denoiser is a deterministic function of (x, t).  Its kind gives the   *)
(* velocity it returns; failAt = k >= 0 makes it raise when it is called   *)
(* with the timestep of iteration k (the timesteps of one call differ from *)
(* each other), failAt = -1 makes it never raise.                          *)
Kinds == {"zero", "copy", "time"}
Models == [kind : Kinds, failAt : -1..(MaxSteps - 1)]

Denoiser(kind, xv, tm) ==
    CASE kind = "zero" -> 0
      [] kind = "copy" -> xv
      [] kind = "time" -> Mul(xv, tm)

---------------------------------------------------------------------------
(* State. *)

VARIABLES
    \* control: where the program is, who called sample, what came out of it
    pc, caller, err, retval,
    \* locals of sample
    model, x, steps, eta, t, alphas, sigmas, i, pred,
    \* history of the current sample call
    x0, calls, draws, recombs, xs, cur,
    \* the same call made a second time: which run this is, what the first gave
    run, first,
    \* results of get_crash_schedule on a two-element tensor and of training_step
    warped, train,
    \* DemoCallback fields and the trainer's step counter
    global_step, last_demo_step, demo_every, demo_steps,
    \* history of the callback: sample starts per global_step,
    \* steps whose demo raised (the error printed and dropped), whether a later
    \* call at such a step returned early
    starts, failedAt, skippedAfterFail

ctlVars == <<pc, caller, err, retval>>
locVars == <<model, x, steps, eta, t, alphas, sigmas, i, pred>>
histVars == <<x0, calls, draws, recombs, xs, cur>>
runVars == <<run, first>>
pureVars == <<warped, train>>
cfgVars == <<demo_every, demo_steps>>
demoVars == <<global_step, last_demo_step, starts, failedAt, skippedAfterFail>>
vars == <<ctlVars, locVars, histVars, runVars, pureVars, cfgVars, demoVars>>

\* an absent value (None, an unbound local) is <<>>, a present one <<v>>.
\* The functions of the module used on their own: no trainer, no callback.
Init ==
    /\ pc = "idle" /\ caller = "direct" /\ err = "" /\ retval = <<>>
    /\ model = [kind |-> "zero", failAt |-> -1]
    /\ x = 0 /\ steps = 0 /\ eta = 0
    /\ t = <<>> /\ alphas = <<>> /\ sigmas = <<>> /\ i = 0 /\ pred = <<>>
    /\ x0 = 0 /\ calls = 0 /\ draws = 0 /\ recombs = 0 /\ xs = <<>> /\ cur = <<>>
    /\ run = 1 /\ first = <<>>
    /\ warped = <<>> /\ train = <<>>
    /\ demo_every = 1 /\ demo_steps = 1
    /\ global_step = 0 /\ last_demo_step = -1
    /\ starts = [g \in 0..MaxGlobalStep |-> 0]
    /\ failedAt = {} /\ skippedAfterFail = FALSE

---------------------------------------------------------------------------
(* sample(model, x, steps, eta). *)

\* faulty variant: the velocity term added instead of subtracted
PredPlus(xi, v, alpha, sigma) == Add(Mul(xi, alpha), Mul(v, sigma))

\* pred = x * alphas[i] - v * sigmas[i]
Pred(xi, v, alpha, sigma) == Sub(Mul(xi, alpha), Mul(v, sigma))

\* faulty variant: the velocity term subtracted instead of added
EpsMinus(xi, v, alpha, sigma) == Sub(Mul(xi, sigma), Mul(v, alpha))

\* eps = x * sigmas[i] + v * alphas[i]
Eps(xi, v, alpha, sigma) == Add(Mul(xi, sigma), Mul(v, alpha))

\* eta * (sigmas[i+1]**2 / sigmas[i]**2).sqrt() * (1 - alphas[i]**2 / alphas[i+1]**2).sqrt()
DdimSigma(e, alpha, sigma, alphaNext, sigmaNext) ==
    Mul(Mul(e, SqrtSq(DivSq(Sq(sigmaNext), Sq(sigma)))),
        SqrtSq(Sub(Sq(Scale), DivSq(Sq(alpha), Sq(alphaNext)))))

\* (sigmas[i+1]**2 - ddim_sigma**2).sqrt()
AdjustedSigma(sigmaNext, ddim) ==
    SqrtSq(Sub(Sq(sigmaNext), Sq(ddim)))

\* faulty variant: the predicted noise left out of the next state
RecombineNoEps(p, e, alphaNext, adj) == Mul(p, alphaNext)

\* x = pred * alphas[i+1] + eps * adjusted_sigma
Recombine(p, e, alphaNext, adj) == Add(Mul(p, alphaNext), Mul(e, adj))

\* faulty variant: fresh noise added whatever eta is
AddsNoiseAlways(e) == TRUE

\* `if eta:`
AddsNoise(e) == e # 0

\* faulty variant: the loop runs one iteration short
InRangeShort(k, n) == k < n - 1

\* `for i in trange(steps)`: is there an iteration i
InRange(k, n) == k < n

\* `if i < steps - 1`
NotLast(k, n) == k < n - 1

\* lines 38-45 of sample, entered with the arguments (m, xin, st, e):
\* torch.linspace raises for a negative number of points (st + 1 < 0)
SampleEnter(m, xin, st, e) ==
    /\ model' = m /\ x' = xin /\ steps' = st /\ eta' = e
    /\ x0' = xin /\ calls' = 0 /\ draws' = 0 /\ recombs' = 0
    /\ xs' = <<>> /\ cur' = <<>> /\ i' = 0 /\ pred' = <<>> /\ retval' = <<>>
    /\ IF st + 1 < 0
       THEN /\ pc' = "raised" /\ err' = "RuntimeError"
            /\ t' = <<>> /\ alphas' = <<>> /\ sigmas' = <<>>
       ELSE LET sched == IF st > 0 THEN Schedules[st]
                         ELSE [t |-> <<>>, alphas |-> <<>>, sigmas |-> <<>>]
            IN /\ pc' = "loop" /\ err' = ""
               /\ t' = sched.t
               /\ alphas' = sched.alphas
               /\ sigmas' = sched.sigmas

\* a caller other than the demo callback calls sample
SampleCall ==
    /\ pc = "idle" /\ caller = "direct"
    /\ \E m \in Models, xin \in Inputs, st \in -2..MaxSteps, e \in Etas :
           SampleEnter(m, xin, st, e)
    /\ run' = 1 /\ first' = <<>>
    /\ UNCHANGED <<caller, pureVars, cfgVars, demoVars>>

\* the frame of a finished call is dropped
FrameCleared ==
    /\ pc' = "idle" /\ err' = "" /\ retval' = <<>>
    /\ model' = [kind |-> "zero", failAt |-> -1]
    /\ x' = 0 /\ steps' = 0 /\ eta' = 0
    /\ t' = <<>> /\ alphas' = <<>> /\ sigmas' = <<>> /\ i' = 0 /\ pred' = <<>>
    /\ x0' = 0 /\ calls' = 0 /\ draws' = 0 /\ recombs' = 0 /\ xs' = <<>> /\ cur' = <<>>
    /\ run' = 1 /\ first' = <<>>

\* the direct caller is done with the value or the error it received
CallerContinues ==
    /\ pc \in {"returned", "raised", "warped", "trained"} /\ caller = "direct"
    /\ FrameCleared
    /\ warped' = <<>> /\ train' = <<>>
    /\ UNCHANGED <<caller, cfgVars, demoVars>>

\* the caller repeats the call it just made, with identical arguments
SampleAgain ==
    /\ pc \in {"returned", "raised"} /\ caller = "direct" /\ run = 1
    /\ first' = <<[pc |-> pc, err |-> err, retval |-> retval, xs |-> xs,
                   calls |-> calls]>>
    /\ run' = 2
    /\ SampleEnter(model, x0, steps, eta)
    /\ UNCHANGED <<caller, pureVars, cfgVars, demoVars>>

\* one iteration of the loop in which the denoiser returns a velocity
SampleIter ==
    /\ pc = "loop" /\ InRange(i, steps) /\ model.failAt # i
    /\ LET alpha == alphas[i + 1]
           sigma == sigmas[i + 1]
           v == Denoiser(model.kind, x, t[i + 1])
           p == Pred(x, v, alpha, sigma)
           e == Eps(x, v, alpha, sigma)
       IN /\ calls' = calls + 1
          /\ xs' = Append(xs, x)
          /\ pred' = <<p>>
          /\ IF NotLast(i, steps)
             THEN LET ddim == DdimSigma(eta, alpha, sigma, alphas[i + 2], sigmas[i + 2])
                      adj == AdjustedSigma(sigmas[i + 2], ddim)
                      xr == Recombine(p, e, alphas[i + 2], adj)
                  IN /\ recombs' = recombs + 1
                     /\ cur' = <<[i |-> i, x |-> x, v |-> v, pred |-> p, eps |-> e,
                                  alpha |-> alpha, sigma |-> sigma, adj |-> <<adj>>]>>
                     /\ IF AddsNoise(eta)
                        THEN /\ \E n \in Noise : x' = Add(xr, Mul(n, ddim))
                             /\ draws' = draws + 1
                        ELSE /\ x' = xr
                             /\ draws' = draws
             ELSE /\ cur' = <<[i |-> i, x |-> x, v |-> v, pred |-> p, eps |-> e,
                               alpha |-> alpha, sigma |-> sigma, adj |-> <<>>]>>
                  /\ UNCHANGED <<x, recombs, draws>>
    /\ i' = i + 1
    /\ UNCHANGED <<ctlVars, model, steps, eta, t, alphas, sigmas, x0, runVars,
                   pureVars, cfgVars, demoVars>>

\* faulty variant: sample catches the denoiser's error and goes on to the next iteration
SampleDenoiserSwallowed ==
    /\ pc = "loop" /\ InRange(i, steps) /\ model.failAt = i
    /\ calls' = calls + 1
    /\ xs' = Append(xs, x)
    /\ i' = i + 1
    /\ UNCHANGED <<ctlVars, model, x, steps, eta, t, alphas, sigmas, pred, x0, draws,
                   recombs, cur, runVars, pureVars, cfgVars, demoVars>>

\* the denoiser raises at iteration i: nothing in sample catches it
SampleDenoiserRaises ==
    /\ pc = "loop" /\ InRange(i, steps) /\ model.failAt = i
    /\ calls' = calls + 1
    /\ xs' = Append(xs, x)
    /\ pc' = "raised" /\ err' = "DenoiserError"
    /\ UNCHANGED <<caller, retval, locVars, x0, draws, recombs, cur, runVars,
                   pureVars, cfgVars, demoVars>>

\* `return pred` after the loop; pred is unbound when the loop body never ran
SampleReturn ==
    /\ pc = "loop" /\ ~InRange(i, steps)
    /\ IF pred = <<>>
       THEN /\ pc' = "raised" /\ err' = "UnboundLocalError" /\ retval' = retval
       ELSE /\ pc' = "returned" /\ retval' = pred /\ err' = err
    /\ UNCHANGED <<caller, locVars, histVars, runVars, pureVars, cfgVars, demoVars>>

---------------------------------------------------------------------------
(* get_crash_schedule and training_step, called on their own. *)

\* get_crash_schedule applied to a tensor of two timesteps (elementwise)
CrashCall ==
    /\ pc = "idle" /\ caller = "direct"
    /\ \E a \in GridTimes, b \in GridTimes :
           warped' = <<[in |-> <<a, b>>,
                        out |-> <<get_crash_schedule(a), get_crash_schedule(b)>>]>>
    /\ pc' = "warped"
    /\ UNCHANGED <<caller, err, retval, locVars, histVars, runVars, train,
                   cfgVars, demoVars>>

\* noised_reals = reals * alphas + noise * sigmas
NoisedReals(reals, noise, alpha, sigma) == Add(Mul(reals, alpha), Mul(noise, sigma))

\* faulty variant: the target built with the wrong sign
TargetsPlus(reals, noise, alpha, sigma) == Add(Mul(noise, alpha), Mul(reals, sigma))

\* targets = noise * alphas - reals * sigmas
Targets(reals, noise, alpha, sigma) == Sub(Mul(noise, alpha), Mul(reals, sigma))

\* F.mse_loss(v, targets) over the one element
MseLoss(v, targets) == Mul(Sub(v, targets), Sub(v, targets))

\* DiffusionUncond.training_step on a batch element `reals`: u is the
\* rng.draw value in [0, 1), noise the randn_like draw, kind the live model
TrainingStep ==
    /\ pc = "idle" /\ caller = "direct"
    /\ \E reals \in Inputs, u \in GridTimes \ {Scale}, noise \in Noise, kind \in Kinds :
           LET tt == get_crash_schedule(u)
               as == get_alphas_sigmas(tt)
               noised == NoisedReals(reals, noise, as.alpha, as.sigma)
               targets == Targets(reals, noise, as.alpha, as.sigma)
               v == Denoiser(kind, noised, tt)
           IN train' = <<[reals |-> reals, noise |-> noise, t |-> tt,
                          alpha |-> as.alpha, sigma |-> as.sigma,
                          noised_reals |-> noised, targets |-> targets,
                          v |-> v, loss |-> MseLoss(v, targets)]>>
    /\ pc' = "trained"
    /\ UNCHANGED <<caller, err, retval, locVars, histVars, runVars, warped,
                   cfgVars, demoVars>>

---------------------------------------------------------------------------
(* DemoCallback under the trainer. *)

\* main(): DemoCallback(configs) is constructed and trainer.fit runs
InitDemo ==
    /\ pc = "idle" /\ caller = "demo" /\ err = "" /\ retval = <<>>
    /\ model = [kind |-> "zero", failAt |-> -1]
    /\ x = 0 /\ steps = 0 /\ eta = 0
    /\ t = <<>> /\ alphas = <<>> /\ sigmas = <<>> /\ i = 0 /\ pred = <<>>
    /\ x0 = 0 /\ calls = 0 /\ draws = 0 /\ recombs = 0 /\ xs = <<>> /\ cur = <<>>
    /\ run = 1 /\ first = <<>>
    /\ warped = <<>> /\ train = <<>>
    /\ demo_every \in 1..MaxDemoEvery
    /\ demo_steps \in 0..MaxSteps
    /\ global_step = 0 /\ last_demo_step = -1
    /\ starts = [g \in 0..MaxGlobalStep |-> 0]
    /\ failedAt = {} /\ skippedAfterFail = FALSE

\* faulty variant: the last_demo_step test left out
DemoSkipsNoLast(gs, every, last) == (gs - 1) % every # 0

\* the early return of on_train_batch_end
DemoSkips(gs, every, last) == (gs - 1) % every # 0 \/ last = gs

(* on_train_batch_end up to the call of sample.  The trainer passes a       *)
(* global_step that never decreases; module.diffusion_ema is whatever the   *)
(* training has made of it, so any denoiser; noise is the randn draw.       *)
on_train_batch_end ==
    /\ pc = "idle" /\ caller = "demo"
    /\ \E gs \in global_step..MaxGlobalStep :
         /\ global_step' = gs
         /\ IF DemoSkips(gs, demo_every, last_demo_step)
            THEN /\ skippedAfterFail' = (skippedAfterFail \/ gs \in failedAt)
                 /\ UNCHANGED <<ctlVars, locVars, histVars, last_demo_step, starts>>
            ELSE /\ last_demo_step' = gs
                 /\ starts' = [starts EXCEPT ![gs] = @ + 1]
                 /\ \E m \in Models, noise \in DemoNoise :
                        SampleEnter(m, noise, demo_steps, 0)
                 /\ UNCHANGED <<caller, skippedAfterFail>>
    /\ UNCHANGED <<runVars, pureVars, cfgVars, failedAt>>

\* on_train_batch_end after sample: print(fakes.shape), or the except clause
\* that prints the error and lets the callback return normally
DemoFinish ==
    /\ pc \in {"returned", "raised"} /\ caller = "demo"
    /\ failedAt' = IF pc = "raised" THEN failedAt \cup {global_step} ELSE failedAt
    /\ FrameCleared
    /\ UNCHANGED <<caller, pureVars, cfgVars, global_step, last_demo_step, starts,
                   skippedAfterFail>>

---------------------------------------------------------------------------
(* Specifications. *)

Next ==
    \/ SampleCall \/ SampleAgain \/ CallerContinues
    \/ SampleIter \/ SampleDenoiserRaises \/ SampleReturn
    \/ CrashCall \/ TrainingStep

Spec == Init /\ [][Next]_vars

NextDemo ==
    \/ on_train_batch_end \/ DemoFinish
    \/ SampleIter \/ SampleDenoiserRaises \/ SampleReturn

SpecDemo == InitDemo /\ [][NextDemo]_vars

---------------------------------------------------------------------------
(* Properties. *)

\* |a - b| within the rounding of a few operations on values of magnitude m:
\* three units, plus two units per 1.0 of m.  NaN is near nothing.
Near(a, b, m) ==
    /\ ~IsNaN(a) /\ ~IsNaN(b)
    /\ Abs(a - b) <= 3 + (2 * Abs(m)) \div Scale

Finished == pc \in {"returned", "raised"}

\* C1: a call of sample with steps >= 1 that completes has invoked the
\* denoiser exactly `steps` times, once per iteration, whatever eta is; while
\* it runs the number of invocations is the number of iterations begun.
C1_ExactlyStepsCalls ==
    /\ pc \in {"loop", "returned"} /\ steps >= 1 => calls = i /\ calls <= steps
    /\ pc = "returned" => steps >= 1 /\ calls = steps /\ Len(xs) = steps

C1_Witness ==
    /\ pc = "returned" /\ steps >= 3 /\ eta # 0 /\ calls = steps

\* C2 (as claimed): sample with steps < 1 makes no denoiser call and ends in
\* an invalid-argument error.
C2_RejectsNonPositiveSteps ==
    Finished /\ steps < 1 =>
        pc = "raised" /\ err = "InvalidArgument" /\ calls = 0

\* C3: a denoiser that raises at iteration k < steps ends the call with that
\* error at the caller, after exactly k + 1 invocations and with no value
\* returned; sample never invokes the denoiser again after the failure.
C3_DenoiserErrorPropagates ==
    /\ pc \in {"loop", "returned", "raised"} /\ model.failAt \in 0..(steps - 1) =>
           calls <= model.failAt + 1
    /\ Finished /\ model.failAt \in 0..(steps - 1) =>
           /\ pc = "raised" /\ err = "DenoiserError"
           /\ calls = model.failAt + 1 /\ retval = <<>>
    /\ pc = "raised" /\ err = "DenoiserError" =>
           model.failAt \in 0..(steps - 1) /\ i = model.failAt

C3_Witness ==
    /\ pc = "raised" /\ err = "DenoiserError" /\ caller = "direct"
    /\ model.failAt = 2 /\ calls = 3 /\ steps = 4

\* the state fed to the denoiser in the latest iteration, rebuilt from that
\* iteration's estimates: pred * alpha_i + eps * sigma_i
Recomposed(c) == Add(Mul(c.pred, c.alpha), Mul(c.eps, c.sigma))

\* C4 (as claimed): at every iteration, x = pred*alpha_i + eps*sigma_i.
C4_AlwaysRecomposes ==
    cur # <<>> => Near(Recomposed(cur[1]), cur[1].x, cur[1].x)

\* C4 (amended): at every iteration whose x is a number (not NaN),
\* x = pred*alpha_i + eps*sigma_i up to rounding, with alpha_i^2 + sigma_i^2 = 1
\* up to rounding; x is a number at every iteration when eta <= 1.
C4_RecomposesWhenFinite ==
    /\ cur # <<>> =>
           Abs(Mul(cur[1].alpha, cur[1].alpha) + Mul(cur[1].sigma, cur[1].sigma) - Scale) <= 2
    /\ cur # <<>> /\ ~IsNaN(cur[1].x) =>
           Near(Recomposed(cur[1]), cur[1].x, cur[1].x)
    /\ eta <= Scale => ~IsNaN(x)

C4_Witness ==
    /\ cur # <<>> /\ cur[1].i >= 1 /\ ~IsNaN(cur[1].x)
    /\ cur[1].v # 0 /\ cur[1].alpha # 0 /\ cur[1].sigma # 0
    /\ eta = Scale /\ Abs(cur[1].x) > Scale

\* C5: sample with steps = 1 calls the denoiser once, never enters the
\* recombination branch (x stays the input, no noise is drawn) and returns
\* x*alpha_0 - v*sigma_0 for t_0 = crash_schedule(1) and v = denoiser(x, t_0).
C5_SingleStep ==
    pc = "returned" /\ steps = 1 =>
        LET t0 == get_crash_schedule(Scale)
            as0 == get_alphas_sigmas(t0)
            v == Denoiser(model.kind, x0, t0)
        IN /\ calls = 1 /\ recombs = 0 /\ draws = 0 /\ x = x0
           /\ xs = <<x0>> /\ t = <<t0>>
           /\ retval = <<Sub(Mul(x0, as0.alpha), Mul(v, as0.sigma))>>

C5_Witness ==
    /\ pc = "returned" /\ steps = 1 /\ model.kind = "copy" /\ eta # 0
    /\ retval # <<0>>

RECURSIVE ZeroGainUpTo(_, _)
\* the factor by which a zero-velocity denoiser scales x over the first k
\* recombinations of schedule sch: the product of
\* alpha_j*alpha_{j+1} + sigma_j*sigma_{j+1}
ZeroGainUpTo(sch, k) ==
    IF k = 0 THEN Scale
    ELSE Mul(ZeroGainUpTo(sch, k - 1),
             Mul(sch.alphas[k], sch.alphas[k + 1]) + Mul(sch.sigmas[k], sch.sigmas[k + 1]))

\* C6 (as claimed): with a zero-velocity denoiser and eta = 0, sample returns
\* x * alpha_0.
C6_ZeroVelocityGivesAlpha0 ==
    pc = "returned" /\ model.kind = "zero" /\ eta = 0 =>
        Near(retval[1], Mul(x0, alphas[1]), x0)

\* C6 (amended): with a zero-velocity denoiser and eta = 0, sample returns the
\* input scaled by alpha_{steps-1} times the product over i < steps - 1 of
\* (alpha_i*alpha_{i+1} + sigma_i*sigma_{i+1}): a pure scaling of the input,
\* which is x * alpha_0 when steps = 1.
C6_ZeroVelocityScaling ==
    pc = "returned" /\ model.kind = "zero" /\ eta = 0 =>
        LET sch == [alphas |-> alphas, sigmas |-> sigmas]
            gain == Mul(ZeroGainUpTo(sch, steps - 1), alphas[steps])
        IN /\ Near(retval[1], Mul(x0, gain), x0)
           /\ steps = 1 => retval[1] = Mul(x0, alphas[1])

C6_Witness ==
    /\ pc = "returned" /\ model.kind = "zero" /\ eta = 0 /\ steps = 4
    /\ x0 = 2 * Scale /\ retval[1] > Scale

IsPrefix(a, b) == Len(a) <= Len(b) /\ \A k \in 1..Len(a) : a[k] = b[k]

\* C7: with eta = 0 no noise is ever drawn, every non-final iteration still
\* recombines with adjusted_sigma = sigma_{i+1}, and a second run of the same
\* call passes through the same states and ends with the same result.
C7_DeterministicAtEtaZero ==
    pc \in {"loop", "returned", "raised"} /\ eta = 0 =>
        /\ draws = 0
        /\ pc \in {"loop", "returned"} /\ model.failAt = -1 /\ i >= 1 =>
               recombs = (IF i < steps THEN i ELSE steps - 1)
        /\ cur # <<>> /\ cur[1].adj # <<>> => cur[1].adj[1] = sigmas[cur[1].i + 2]
        /\ run = 2 =>
               /\ IsPrefix(xs, first[1].xs)
               /\ Finished =>
                      /\ first[1].pc = pc /\ first[1].err = err
                      /\ first[1].retval = retval /\ first[1].xs = xs

C7_Witness ==
    /\ run = 2 /\ pc = "returned" /\ eta = 0 /\ steps >= 3
    /\ model.kind = "copy" /\ first[1].retval = retval /\ retval # <<0>>
    /\ recombs = steps - 1

\* C8: get_crash_schedule is non-decreasing on [0, 1], and the timesteps
\* that sample passes to the denoiser never increase from one iteration to
\* the next.
C8_CrashScheduleMonotone ==
    /\ warped # <<>> =>
           /\ warped[1].in[1] <= warped[1].in[2] => warped[1].out[1] <= warped[1].out[2]
           /\ warped[1].in[1] >= warped[1].in[2] => warped[1].out[1] >= warped[1].out[2]
    /\ \A k \in 1..(Len(t) - 1) : t[k + 1] <= t[k]

C8_Witness ==
    /\ warped # <<>>
    /\ warped[1].in[1] < warped[1].in[2] /\ warped[1].out[1] < warped[1].out[2]
    /\ warped[1].in[1] > 0 /\ warped[1].in[2] < Scale

\* C9: when the denoiser returns exactly the training target for the noised
\* input, the sampler's estimates recover the training data: pred = reals and
\* eps = noise, up to rounding.
C9_SamplerInvertsTarget ==
    train # <<>> =>
        LET r == train[1]
            m == Abs(r.reals) + Abs(r.noise)
        IN /\ Near(Pred(r.noised_reals, r.targets, r.alpha, r.sigma), r.reals, m)
           /\ Near(Eps(r.noised_reals, r.targets, r.alpha, r.sigma), r.noise, m)

C9_Witness ==
    /\ train # <<>> /\ train[1].reals = 2 * Scale /\ train[1].noise = -Scale
    /\ train[1].alpha > Scale \div 4 /\ train[1].sigma > Scale \div 4

\* C10: under a global_step that never decreases, sample is started at most
\* once per global_step value, only at steps with (global_step - 1) %
\* demo_every = 0, and a demo whose sample raised is not started again at the
\* same global_step.
C10_AtMostOneDemoPerStep ==
    /\ \A g \in 0..MaxGlobalStep :
           /\ starts[g] <= 1
           /\ starts[g] = 1 => (g - 1) % demo_every = 0 /\ g <= last_demo_step
    /\ \A g \in failedAt : starts[g] = 1
    /\ caller = "demo" /\ pc # "idle" =>
           last_demo_step = global_step /\ starts[global_step] = 1 /\ eta = 0

C10_Witness ==
    /\ skippedAfterFail /\ pc = "idle" /\ global_step \in failedAt
    /\ starts[global_step] = 1 /\ last_demo_step = global_step
    /\ global_step >= 2
=============================================================================
